---- MODULE Spec2Model ----
(***************************************************************************)
(* Model of the model-profile store (settings/api_database.py), the        *)
(* credential resolver and session layer (settings/api_manager.py) and the *)
(* resolution facade (settings/model_configs.py).                          *)
(*                                                                         *)
(* Conventions.  An Optional[...] argument is a set with at most one       *)
(* element: {} is None, {v} is the value v.  A temperature is an integer   *)
(* number of tenths (2 stands for 0.2).  Text is a TLA+ string, so that    *)
(* concatenation and substring tests are computed on the characters.       *)
(***************************************************************************)
EXTENDS Integers, Sequences, FiniteSets, TLC

VARIABLES
    custom_models,    \* the rows of table custom_models (shared SQLite file)
    sqlite_sequence,  \* largest id the AUTOINCREMENT column has issued
    clock,            \* CURRENT_TIMESTAMP
    legacy_file,      \* settings/config/custom_models.json: {} or {content}
    backup_file,      \* custom_models.json.migrated: {} or {content}
    environ,          \* os.environ restricted to the credential keys
    secrets,          \* st.secrets: {} when unavailable, else {mapping}
    OPENROUTER_API_KEY, \* the module global model_configs sets at import
    model_choices,    \* the dict MODEL_CHOICES of model_configs, as it is now
    session_state,    \* st.session_state of every session
    pc,               \* where each session stands inside api_manager.add_custom_model
    last              \* the call that completed last, with what it returned

vars == <<custom_models, sqlite_sequence, clock, legacy_file, backup_file,
          environ, secrets, OPENROUTER_API_KEY, model_choices, session_state, pc, last>>

-----------------------------------------------------------------------------
(* Bounds of the exploration *)

MaxId == 2          \* rows ever inserted in one behaviour
MaxClock == 1       \* seconds that pass in one behaviour
MaxLegacy == 2      \* records in a legacy list

-----------------------------------------------------------------------------
(* Values *)

None == {}
Some(v) == {v}
TheOne(S) == CHOOSE v \in S : TRUE
OrDefault(opt, d) == IF opt = None THEN d ELSE TheOne(opt)
Opt(S) == {None} \cup {Some(v) : v \in S}

DefaultProvider == "OpenAIChatCompletionClient"
DefaultBaseUrl == "https://openrouter.ai/api/v1"
DefaultTemperature == 2
DefaultApiProvider == "OPENROUTER"

Sessions == {"s1", "s2", "s3"}

ModelIds == {"openai/gpt-4o", "x"}

-----------------------------------------------------------------------------
(* Text: byte-wise comparison, as SQLite's BINARY collation orders names.   *)
(* Ascii lists, in code order, the characters that occur in profile names. *)

Ascii == " -./0123456789:ABCDEFGHIJKLMNOPQRSTUVWXYZ_abcdefghijklmnopqrstuvwxyz"

Ord(c) == CHOOSE i \in 1..Len(Ascii) : SubSeq(Ascii, i, i) = c

RECURSIVE StrLessFrom(_, _, _)
StrLessFrom(a, b, i) ==
    IF i > Len(a) THEN i <= Len(b)
    ELSE IF i > Len(b) THEN FALSE
    ELSE IF SubSeq(a, i, i) = SubSeq(b, i, i) THEN StrLessFrom(a, b, i + 1)
    ELSE Ord(SubSeq(a, i, i)) < Ord(SubSeq(b, i, i))

StrLess(a, b) == StrLessFrom(a, b, 1)

-----------------------------------------------------------------------------
(* settings/api_database.py *)

RowsNamed(tbl, name) == {r \in tbl : r.name = name}

TableNames(tbl) == {r.name : r \in tbl}

\* InsertRow on a table whose name column lacks the UNIQUE constraint.
InsertRowNoUnique(tbl, seq, now, name, provider, model_id, base_url, temperature, api_provider) ==
    [integrity_error |-> FALSE,
     rows |-> tbl \cup {[id |-> seq + 1, name |-> name, provider |-> provider,
                         model_id |-> model_id, base_url |-> base_url,
                         temperature |-> temperature, api_provider |-> api_provider,
                         created_at |-> now, updated_at |-> now]},
     seq |-> seq + 1]

\* INSERT INTO custom_models (...) VALUES (...) under the table's constraints:
\* name TEXT UNIQUE makes the statement raise sqlite3.IntegrityError.
InsertRow(tbl, seq, now, name, provider, model_id, base_url, temperature, api_provider) ==
    IF RowsNamed(tbl, name) # {}
    THEN [integrity_error |-> TRUE, rows |-> tbl, seq |-> seq]
    ELSE [integrity_error |-> FALSE,
          rows |-> tbl \cup {[id |-> seq + 1, name |-> name, provider |-> provider,
                              model_id |-> model_id, base_url |-> base_url,
                              temperature |-> temperature, api_provider |-> api_provider,
                              created_at |-> now, updated_at |-> now]},
          seq |-> seq + 1]

\* add_custom_model written with INSERT OR REPLACE: an existing row of that name
\* is replaced and the call reports success.
db_add_or_replace(tbl, seq, now, name, model_id, provider, base_url, temperature, api_provider) ==
    LET ins == InsertRow(tbl \ RowsNamed(tbl, name), seq, now, name,
                         OrDefault(provider, DefaultProvider), model_id,
                         OrDefault(base_url, DefaultBaseUrl),
                         OrDefault(temperature, DefaultTemperature),
                         OrDefault(api_provider, DefaultApiProvider))
    IN  [ret |-> TRUE, rows |-> ins.rows, seq |-> ins.seq]

\* add_custom_model: True when the INSERT committed, False on IntegrityError.
db_add_custom_model(tbl, seq, now, name, model_id, provider, base_url, temperature, api_provider) ==
    LET ins == InsertRow(tbl, seq, now, name,
                         OrDefault(provider, DefaultProvider), model_id,
                         OrDefault(base_url, DefaultBaseUrl),
                         OrDefault(temperature, DefaultTemperature),
                         OrDefault(api_provider, DefaultApiProvider))
    IN  [ret |-> ~ins.integrity_error, rows |-> ins.rows, seq |-> ins.seq]

\* UpdatedRow writing the column default for every field that is not supplied.
UpdatedRowResetsUnsupplied(r, now, model_id, provider, base_url, temperature, api_provider) ==
    [r EXCEPT !.model_id = OrDefault(model_id, @),
              !.provider = OrDefault(provider, DefaultProvider),
              !.base_url = OrDefault(base_url, DefaultBaseUrl),
              !.temperature = OrDefault(temperature, DefaultTemperature),
              !.api_provider = OrDefault(api_provider, DefaultApiProvider),
              !.updated_at = now]

\* The SET clause update_custom_model builds: one assignment per supplied field.
UpdatedRow(r, now, model_id, provider, base_url, temperature, api_provider) ==
    [r EXCEPT !.model_id = OrDefault(model_id, @),
              !.provider = OrDefault(provider, @),
              !.base_url = OrDefault(base_url, @),
              !.temperature = OrDefault(temperature, @),
              !.api_provider = OrDefault(api_provider, @),
              !.updated_at = now]

NoUpdates(model_id, provider, base_url, temperature, api_provider) ==
    /\ model_id = None
    /\ provider = None
    /\ base_url = None
    /\ temperature = None
    /\ api_provider = None

\* update_custom_model returning True without looking at cursor.rowcount.
update_custom_model_always_true(tbl, now, name, model_id, provider, base_url, temperature, api_provider) ==
    [ret |-> TRUE,
     rows |-> IF NoUpdates(model_id, provider, base_url, temperature, api_provider)
              THEN tbl
              ELSE {IF r.name = name
                    THEN UpdatedRow(r, now, model_id, provider, base_url, temperature, api_provider)
                    ELSE r : r \in tbl}]

\* update_custom_model without its `if not updates: return True`: the UPDATE,
\* which then sets updated_at alone, runs and cursor.rowcount decides.
update_custom_model_without_early_return(tbl, now, name, model_id, provider, base_url, temperature, api_provider) ==
    [ret |-> RowsNamed(tbl, name) # {},
     rows |-> {IF r.name = name
               THEN UpdatedRow(r, now, model_id, provider, base_url, temperature, api_provider)
               ELSE r : r \in tbl}]

\* update_custom_model: True with nothing to update, else cursor.rowcount > 0.
update_custom_model(tbl, now, name, model_id, provider, base_url, temperature, api_provider) ==
    IF NoUpdates(model_id, provider, base_url, temperature, api_provider)
    THEN [ret |-> TRUE, rows |-> tbl]
    ELSE [ret |-> RowsNamed(tbl, name) # {},
          rows |-> {IF r.name = name
                    THEN UpdatedRow(r, now, model_id, provider, base_url, temperature, api_provider)
                    ELSE r : r \in tbl}]

\* delete_custom_model: DELETE ... WHERE name = ?, cursor.rowcount > 0.
db_delete_custom_model(tbl, name) ==
    [ret |-> RowsNamed(tbl, name) # {}, rows |-> tbl \ RowsNamed(tbl, name)]

\* model_exists: SELECT 1 ... WHERE name = ?
db_model_exists(tbl, name) == RowsNamed(tbl, name) # {}

\* The dict get_all_custom_models and get_custom_model_by_name build from a row.
ModelDict(r) ==
    [id |-> r.id, name |-> r.name, provider |-> r.provider,
     config |-> [model |-> r.model_id, temperature |-> r.temperature,
                 base_url |-> r.base_url],
     api_provider |-> r.api_provider]

\* A variant that lists the rows in the order of their insertion.
RowBeforeById(a, b) == a.id < b.id

\* ORDER BY name (ties, which the UNIQUE constraint excludes, by rowid).
RowBefore(a, b) == StrLess(a.name, b.name) \/ (a.name = b.name /\ a.id < b.id)

RECURSIVE OrderByName(_)
OrderByName(rows) ==
    IF rows = {} THEN <<>>
    ELSE LET first == CHOOSE r \in rows : \A q \in rows \ {r} : RowBefore(r, q)
         IN  <<first>> \o OrderByName(rows \ {first})

\* get_all_custom_models: SELECT * FROM custom_models ORDER BY name
db_get_all_custom_models(tbl) ==
    LET sorted == OrderByName(tbl)
    IN  [i \in 1..Len(sorted) |-> ModelDict(sorted[i])]

\* get_custom_model_by_name: the row's dict, or None.
get_custom_model_by_name(tbl, name) ==
    IF RowsNamed(tbl, name) = {} THEN None
    ELSE Some(ModelDict(CHOOSE r \in RowsNamed(tbl, name) :
                            \A q \in RowsNamed(tbl, name) : r.id <= q.id))

\* A legacy record {name, provider?, config: {model, base_url?, temperature?},
\* api_provider?}; an absent key is None, name defaults to "".  kind tells what
\* json.load gave: "mapping" for a dict whose config is a dict or absent.
LegacyRecord(name, model, provider, base_url, temperature, api_provider) ==
    [kind |-> "mapping", name |-> name, model |-> model, provider |-> provider,
     base_url |-> base_url, temperature |-> temperature, api_provider |-> api_provider]

\* What else json.load may give as an element of the list: a dict whose config is
\* null ("config_null") or a string ("config_text"), or a string ("text").
MalformedRecord(kind, name) ==
    [LegacyRecord(name, None, None, None, None, None) EXCEPT !.kind = kind]

\* `if not name or not config.get("model"): continue`
SkippedRecord(rec) == rec.name = "" \/ rec.model = None \/ rec.model = Some("")

\* The names of the records of a list that pass that test.
ValidNames(json_models) ==
    {json_models[i].name : i \in {j \in 1..Len(json_models) : ~SkippedRecord(json_models[j])}}

\* The AttributeError of `model.get` on a record that is no dict, and of
\* `config.get` on a config that is none, which `not name or ...` evaluates
\* only for a record with a name.
RecordRaises(rec) ==
    \/ rec.kind = "text"
    \/ rec.kind \in {"config_null", "config_text"} /\ rec.name # ""

\* migrate_from_json counting every record it attempts, inserted or not.
RECURSIVE migrate_from_json_counting_attempts(_, _, _, _)
migrate_from_json_counting_attempts(tbl, seq, now, json_models) ==
    IF json_models = <<>> THEN [raised |-> FALSE, ret |-> 0, rows |-> tbl, seq |-> seq]
    ELSE LET rec == Head(json_models)
         IN  IF RecordRaises(rec)
             THEN [raised |-> TRUE, ret |-> 0, rows |-> tbl, seq |-> seq]
             ELSE LET add == IF SkippedRecord(rec)
                             THEN [ret |-> FALSE, rows |-> tbl, seq |-> seq]
                             ELSE db_add_custom_model(tbl, seq, now, rec.name,
                                                      TheOne(rec.model), rec.provider,
                                                      rec.base_url, rec.temperature,
                                                      rec.api_provider)
                      rest == migrate_from_json_counting_attempts(add.rows, add.seq, now,
                                                                  Tail(json_models))
                  IN  [raised |-> rest.raised,
                       ret |-> (IF SkippedRecord(rec) THEN 0 ELSE 1) + rest.ret,
                       rows |-> rest.rows, seq |-> rest.seq]

\* migrate_from_json: one add_custom_model per usable record, counting successes.
\* A record that raises ends the loop: the exception leaves the call (raised),
\* each row inserted before it stays (every add_custom_model commits by itself)
\* and no count is returned.
RECURSIVE migrate_from_json(_, _, _, _)
migrate_from_json(tbl, seq, now, json_models) ==
    IF json_models = <<>> THEN [raised |-> FALSE, ret |-> 0, rows |-> tbl, seq |-> seq]
    ELSE LET rec == Head(json_models)
         IN  IF RecordRaises(rec)
             THEN [raised |-> TRUE, ret |-> 0, rows |-> tbl, seq |-> seq]
             ELSE LET add == IF SkippedRecord(rec)
                             THEN [ret |-> FALSE, rows |-> tbl, seq |-> seq]
                             ELSE db_add_custom_model(tbl, seq, now, rec.name,
                                                      TheOne(rec.model), rec.provider,
                                                      rec.base_url, rec.temperature,
                                                      rec.api_provider)
                      rest == migrate_from_json(add.rows, add.seq, now, Tail(json_models))
                  IN  [raised |-> rest.raised,
                       ret |-> IF rest.raised THEN 0 ELSE (IF add.ret THEN 1 ELSE 0) + rest.ret,
                       rows |-> rest.rows, seq |-> rest.seq]

-----------------------------------------------------------------------------
(* settings/api_manager.py *)

CredentialKeys ==
    {"OPENAI_API_KEY", "DEEPSEEK_API_KEY", "GEMINI_API_KEY",
     "OPENROUTER_API_KEY", "GROQ_API_KEY", "GROK_API_KEY"}

\* The outcome of a call: a value, or an exception that leaves the call.
Returned(v) == [raised |-> FALSE, value |-> v]
Raised(e) == [raised |-> TRUE, exception |-> e]

\* dict.get(key, default)
DictGet(d, key, default) == IF key \in DOMAIN d THEN d[key] ELSE default

\* st.secrets.get(key, default): raises when there is no secrets file.
SecretsGet(sec, key, default) ==
    IF sec = None THEN Raised("StreamlitSecretNotFoundError")
    ELSE Returned(DictGet(TheOne(sec), key, default))

\* _get_secret without its try/except around st.secrets.
GetSecretUnguarded(env, sec, key, default) ==
    LET env_value == DictGet(env, key, "")
    IN  IF env_value # "" THEN Returned(env_value) ELSE SecretsGet(sec, key, default)

\* _get_secret asking st.secrets before the environment.
GetSecretSecretsFirst(env, sec, key, default) ==
    LET got == SecretsGet(sec, key, "")
        env_value == DictGet(env, key, "")
    IN  IF ~got.raised /\ got.value # "" THEN got
        ELSE IF env_value # "" THEN Returned(env_value)
        ELSE Returned(default)

\* _get_secret: the environment value when non-empty, else st.secrets.get(key,
\* default), else (st.secrets raising) the default.
GetSecretOutcome(env, sec, key, default) ==
    LET env_value == DictGet(env, key, "")
        got == SecretsGet(sec, key, default)
    IN  IF env_value # "" THEN Returned(env_value)
        ELSE IF got.raised THEN Returned(default)
        ELSE got

_get_secret(env, sec, key, default) == GetSecretOutcome(env, sec, key, default).value

\* load_api_keys: the six family keys, each through _get_secret.
load_api_keys(env, sec) == [k \in CredentialKeys |-> _get_secret(env, sec, k, "")]

\* delete_api_key: load_api_keys stores the keys it resolves as the session's
\* copy and returns that very dict; a key_name in it is blanked there and the dict
\* stored again by save_api_keys (True); for another key_name the call returns
\* False with the freshly loaded copy left in place.
delete_api_key(env, sec, key_name) ==
    LET keys == load_api_keys(env, sec)
    IN  IF key_name \in DOMAIN keys
        THEN [ret |-> TRUE, api_keys |-> [keys EXCEPT ![key_name] = ""]]
        ELSE [ret |-> FALSE, api_keys |-> keys]

\* _migrate_json_to_sqlite: with the legacy file present and its list non-empty,
\* migrate_from_json and then os.rename to the backup path; an exception of
\* migrate_from_json is caught and printed, and the rename is not reached.
_migrate_json_to_sqlite(tbl, seq, now, legacy, backup) ==
    IF legacy = None \/ legacy = Some(<<>>)
    THEN [rows |-> tbl, seq |-> seq, legacy |-> legacy, backup |-> backup]
    ELSE LET m == migrate_from_json(tbl, seq, now, TheOne(legacy))
         IN  IF m.raised
             THEN [rows |-> m.rows, seq |-> m.seq, legacy |-> legacy, backup |-> backup]
             ELSE [rows |-> m.rows, seq |-> m.seq, legacy |-> None, backup |-> legacy]

\* load_custom_models reading the table without the migration step.
LoadWithoutMigration(tbl, seq, now, legacy, backup) ==
    [models |-> db_get_all_custom_models(tbl), rows |-> tbl, seq |-> seq,
     legacy |-> legacy, backup |-> backup]

\* load_custom_models: migrate if needed, list the table (the caller caches it).
load_custom_models(tbl, seq, now, legacy, backup) ==
    LET m == _migrate_json_to_sqlite(tbl, seq, now, legacy, backup)
    IN  [models |-> db_get_all_custom_models(m.rows), rows |-> m.rows, seq |-> m.seq,
         legacy |-> m.legacy, backup |-> m.backup]

\* The insert of api_manager.add_custom_model, with its `x if x else default`.
ManagerInsert(tbl, seq, now, a) ==
    db_add_custom_model(tbl, seq, now, a.name, a.model_id, Some(a.provider),
                        Some(IF a.base_url # "" THEN a.base_url ELSE "https://openrouter.ai/api/v1"),
                        Some(a.temperature),
                        Some(IF a.api_provider # "" THEN a.api_provider ELSE "OPENROUTER"))

\* A variant of add_custom_model and remove_custom_model that leaves the cache
\* entry in place.
KeepCache(ss, s) == ss

\* `if 'custom_models' in st.session_state: del st.session_state['custom_models']`
DropCache(ss, s) == [ss EXCEPT ![s].custom_models = None]

\* x in s, for Python strings
Contains(s, x) ==
    \E i \in 1..(Len(s) - Len(x) + 1) : SubSeq(s, i, i + Len(x) - 1) = x

Uppers == "ABCDEFGHIJKLMNOPQRSTUVWXYZ"
Lowers == "abcdefghijklmnopqrstuvwxyz"

LowerChar(c) ==
    IF \E i \in 1..Len(Uppers) : SubSeq(Uppers, i, i) = c
    THEN LET i == CHOOSE j \in 1..Len(Uppers) : SubSeq(Uppers, j, j) = c
         IN  SubSeq(Lowers, i, i)
    ELSE c

\* str.lower()
RECURSIVE Lower(_)
Lower(s) == IF Len(s) = 0 THEN s ELSE LowerChar(SubSeq(s, 1, 1)) \o Lower(SubSeq(s, 2, Len(s)))

\* The if/elif chain asking for "deepseek" in the model name before it asks for
\* "openrouter" in the base_url.
BuiltinKeyNameDeepseekFirst(base_url_raw, model_raw) ==
    LET base_url == Lower(base_url_raw)
        model_name == Lower(model_raw)
    IN  IF Contains(base_url, "generativelanguage.googleapis.com") \/ Contains(model_name, "gemini")
        THEN "GEMINI_API_KEY"
        ELSE IF Contains(base_url, "deepseek") \/ Contains(model_name, "deepseek")
        THEN "DEEPSEEK_API_KEY"
        ELSE IF Contains(base_url, "openrouter") THEN "OPENROUTER_API_KEY"
        ELSE IF Contains(base_url, "groq") THEN "GROQ_API_KEY"
        ELSE IF Contains(base_url, "x.ai") \/ Contains(model_name, "grok") THEN "GROK_API_KEY"
        ELSE "OPENAI_API_KEY"

\* The if/elif chain that picks a built-in profile's credential key.
BuiltinKeyName(base_url_raw, model_raw) ==
    LET base_url == Lower(base_url_raw)
        model_name == Lower(model_raw)
    IN  IF Contains(base_url, "generativelanguage.googleapis.com") \/ Contains(model_name, "gemini")
        THEN "GEMINI_API_KEY"
        ELSE IF Contains(base_url, "openrouter") THEN "OPENROUTER_API_KEY"
        ELSE IF Contains(base_url, "groq") THEN "GROQ_API_KEY"
        ELSE IF Contains(base_url, "x.ai") \/ Contains(model_name, "grok") THEN "GROK_API_KEY"
        ELSE IF Contains(base_url, "deepseek")
                \/ (Contains(model_name, "deepseek") /\ ~Contains(base_url, "openrouter"))
        THEN "DEEPSEEK_API_KEY"
        ELSE "OPENAI_API_KEY"

-----------------------------------------------------------------------------
(* settings/api_database.py under infrastructure faults.  A call meets at most
   one fault: "init" is a statement of init_database failing, "connect" is
   sqlite3.connect failing in the operation's own get_connection, "execute" is
   cursor.execute raising sqlite3.OperationalError without effect, "commit" is
   conn.commit() raising.  conn tells what became of the operation's connection:
   "none" when none was opened, else "closed" or "open". *)

Faults == {"none", "init", "connect", "execute", "commit"}

\* get_connection as `conn = connect(); yield conn; conn.commit()` without its
\* try/except/finally: an exception leaves the connection open.
get_connection_without_finally(tbl, seq, body, fault) ==
    IF fault = "connect"
    THEN [raised |-> TRUE, rows |-> tbl, seq |-> seq, conn |-> "none"]
    ELSE IF body.raised \/ fault = "commit"
    THEN [raised |-> TRUE, rows |-> tbl, seq |-> seq, conn |-> "open"]
    ELSE [raised |-> FALSE, rows |-> body.rows, seq |-> body.seq, conn |-> "closed"]

\* get_connection around a with-block.  body is what the block's statements did
\* inside the transaction and whether the block raised.  An exception of the
\* block or of the commit is answered by rollback, re-raised, and the connection
\* is closed in `finally`; otherwise the transaction is committed.
get_connection(tbl, seq, body, fault) ==
    IF fault = "connect"
    THEN [raised |-> TRUE, rows |-> tbl, seq |-> seq, conn |-> "none"]
    ELSE IF body.raised \/ fault = "commit"
    THEN [raised |-> TRUE, rows |-> tbl, seq |-> seq, conn |-> "closed"]
    ELSE [raised |-> FALSE, rows |-> body.rows, seq |-> body.seq, conn |-> "closed"]

\* init_database: CREATE TABLE IF NOT EXISTS, inside get_connection.
init_database(tbl, seq, fault) ==
    get_connection(tbl, seq, [raised |-> fault = "init", rows |-> tbl, seq |-> seq], "none")

\* add_custom_model: init_database outside the try, then the INSERT inside
\* get_connection; IntegrityError and every other exception give False.
add_custom_model_with_fault(tbl, seq, now, fault, name, model_id, provider, base_url, temperature, api_provider) ==
    IF init_database(tbl, seq, fault).raised
    THEN [outcome |-> Raised("OperationalError"), faulted |-> TRUE,
          rows |-> tbl, seq |-> seq, conn |-> "none"]
    ELSE LET ins == InsertRow(tbl, seq, now, name,
                              OrDefault(provider, DefaultProvider), model_id,
                              OrDefault(base_url, DefaultBaseUrl),
                              OrDefault(temperature, DefaultTemperature),
                              OrDefault(api_provider, DefaultApiProvider))
             body == IF fault = "execute"
                     THEN [raised |-> TRUE, rows |-> tbl, seq |-> seq]
                     ELSE [raised |-> ins.integrity_error, rows |-> ins.rows, seq |-> ins.seq]
             tx == get_connection(tbl, seq, body, fault)
         IN  [outcome |-> Returned(~tx.raised), faulted |-> fault # "none",
              rows |-> tx.rows, seq |-> tx.seq, conn |-> tx.conn]

\* update_custom_model: with no field supplied the block returns True before it
\* executes a statement (the commit still runs); else the UPDATE and its rowcount.
update_custom_model_with_fault(tbl, seq, now, fault, name, model_id, provider, base_url, temperature, api_provider) ==
    IF init_database(tbl, seq, fault).raised
    THEN [outcome |-> Raised("OperationalError"), faulted |-> TRUE,
          rows |-> tbl, seq |-> seq, conn |-> "none"]
    ELSE LET nothing == NoUpdates(model_id, provider, base_url, temperature, api_provider)
             upd == update_custom_model(tbl, now, name, model_id, provider, base_url,
                                        temperature, api_provider)
             body == IF fault = "execute" /\ ~nothing
                     THEN [raised |-> TRUE, rows |-> tbl, seq |-> seq]
                     ELSE [raised |-> FALSE, rows |-> upd.rows, seq |-> seq]
             tx == get_connection(tbl, seq, body, fault)
         IN  [outcome |-> Returned(~tx.raised /\ upd.ret),
              faulted |-> fault # "none" /\ ~(fault = "execute" /\ nothing),
              rows |-> tx.rows, seq |-> tx.seq, conn |-> tx.conn]

\* delete_custom_model: the DELETE and its rowcount.
delete_custom_model_with_fault(tbl, seq, fault, name) ==
    IF init_database(tbl, seq, fault).raised
    THEN [outcome |-> Raised("OperationalError"), faulted |-> TRUE,
          rows |-> tbl, seq |-> seq, conn |-> "none"]
    ELSE LET del == db_delete_custom_model(tbl, name)
             body == IF fault = "execute"
                     THEN [raised |-> TRUE, rows |-> tbl, seq |-> seq]
                     ELSE [raised |-> FALSE, rows |-> del.rows, seq |-> seq]
             tx == get_connection(tbl, seq, body, fault)
         IN  [outcome |-> Returned(~tx.raised /\ del.ret), faulted |-> fault # "none",
              rows |-> tx.rows, seq |-> tx.seq, conn |-> tx.conn]

-----------------------------------------------------------------------------
(* settings/model_configs.py *)

\* A built-in profile (its response_format and model_info, which no call reads
\* or writes, are left out); api_key is OPENROUTER_API_KEY as read at import.
StaticConfig(model, import_key) ==
    [provider |-> "OpenAIChatCompletionClient",
     config |-> [model |-> model, base_url |-> "https://openrouter.ai/api/v1",
                 api_key |-> import_key, temperature |-> DefaultTemperature]]

BuiltinNames ==
    {"DeepSeek-Chat", "GPT-4o-Mini", "Claude-Sonnet-3.5", "Gemini-Flash", "Gemini-Pro"}

BuiltinModel(name) ==
    CASE name = "DeepSeek-Chat" -> "deepseek/deepseek-chat"
      [] name = "GPT-4o-Mini" -> "openai/gpt-4o-mini"
      [] name = "Claude-Sonnet-3.5" -> "anthropic/claude-3.5-sonnet"
      [] name = "Gemini-Flash" -> "google/gemini-2.0-flash-exp"
      [] name = "Gemini-Pro" -> "google/gemini-pro-1.5"

MODEL_CHOICES(import_key) == [n \in BuiltinNames |-> StaticConfig(BuiltinModel(n), import_key)]

default_config(import_key) == StaticConfig("deepseek/deepseek-chat", import_key)

\* The base_url and model of each built-in profile, as imported.
BuiltinEndpoint ==
    [n \in BuiltinNames |->
        <<MODEL_CHOICES("")[n].config.base_url, MODEL_CHOICES("")[n].config.model>>]

\* The credential key the if/elif chain of get_all_available_models picks for
\* each built-in profile.
BuiltinKey ==
    [n \in BuiltinNames |-> BuiltinKeyName(BuiltinEndpoint[n][1], BuiltinEndpoint[n][2])]

\* The names module settings.api_database defines.
ApiDatabaseNames ==
    {"DB_PATH", "get_db_path", "get_connection", "init_database",
     "get_all_custom_models", "get_custom_model_by_name", "add_custom_model",
     "update_custom_model", "delete_custom_model", "model_exists",
     "get_provider_settings", "set_provider_settings", "migrate_from_json"}

\* get_model_config after its import: the store profile with its key, else the
\* static profile of that name, else the default.
ConfigFor(db_model, api_keys, import_key, choice) ==
    IF db_model # None
    THEN LET m == TheOne(db_model)
         IN  [name |-> m.name, provider |-> m.provider, api_provider |-> m.api_provider,
              config |-> [model |-> m.config.model, base_url |-> m.config.base_url,
                          api_key |-> DictGet(api_keys, m.api_provider \o "_API_KEY", ""),
                          temperature |-> m.config.temperature]]
    ELSE LET static_config == DictGet(MODEL_CHOICES(import_key), choice, default_config(import_key))
         IN  [provider |-> static_config.provider, api_provider |-> "OPENROUTER",
              config |-> static_config.config]

\* get_model_config: `from settings.api_database import get_model_by_name` runs
\* first, on every call, and raises ImportError for a name the module lacks.
get_model_config(tbl, env, sec, import_key, choice) ==
    IF "get_model_by_name" \notin ApiDatabaseNames
    THEN Raised("ImportError")
    ELSE Returned(ConfigFor(get_custom_model_by_name(tbl, choice),
                            load_api_keys(env, sec), import_key, choice))

\* A variant of get_all_available_models that collects its entries in
\* MODEL_CHOICES itself.
ResolutionWritesCatalog(choices, updated_models) == updated_models

\* MODEL_CHOICES after get_all_available_models: the entries are collected in a
\* new dict (`updated_models = {}`), each built-in as a deep copy
\* (json.loads(json.dumps(config))), so the catalog is as it was.
CatalogAfterResolution(choices, updated_models) == choices

\* A variant that offers the catalog only while the store is empty.
CandidateNamesStoreFirst(models, choices) ==
    IF models = <<>> THEN DOMAIN choices ELSE {models[i].name : i \in 1..Len(models)}

\* The keys of updated_models: every name of MODEL_CHOICES and every store name.
CandidateNames(models, choices) ==
    DOMAIN choices \cup {models[i].name : i \in 1..Len(models)}

\* get_all_available_models: the entries of MODEL_CHOICES with their keys, then
\* every store profile under its own name (overwriting a built-in of that name).
\* BuiltinKey holds what the if/elif chain answers for the catalog as imported.
get_all_available_models(models, current_keys, choices) ==
    LET names == CandidateNames(models, choices)
        custom(n) == LET i == CHOOSE j \in 1..Len(models) :
                                  /\ models[j].name = n
                                  /\ \A k \in (j + 1)..Len(models) : models[k].name # n
                         m == models[i]
                     IN  [name |-> m.name, provider |-> m.provider,
                          config |-> [model |-> m.config.model,
                                      temperature |-> m.config.temperature,
                                      base_url |-> m.config.base_url,
                                      api_key |-> DictGet(current_keys,
                                                          m.api_provider \o "_API_KEY", "")]]
        key_name(n) == IF /\ n \in BuiltinNames
                          /\ <<choices[n].config.base_url, choices[n].config.model>>
                                = BuiltinEndpoint[n]
                       THEN BuiltinKey[n]
                       ELSE BuiltinKeyName(choices[n].config.base_url,
                                           choices[n].config.model)
        builtin(n) == [choices[n] EXCEPT !.config.api_key =
                          DictGet(current_keys, key_name(n), "")]
    IN  [n \in names |-> IF \E i \in 1..Len(models) : models[i].name = n
                         THEN custom(n) ELSE builtin(n)]

-----------------------------------------------------------------------------
(* Inputs *)

StoreNames == {"TeamGPT", "Old1"}
LookupNames == StoreNames \cup {"NoSuchProfile"}
UpdateNames == {"TeamGPT", "NoSuchProfile"}
ListNames == {"TeamGPT", "Old1", "alpha"}
ManagerNames == {"TeamGPT", "DeepSeek-Chat"}
Choices == {"", "NoSuchProfile", "TeamGPT", "DeepSeek-Chat"}

LegacyRecords ==
    { LegacyRecord("Old1", Some("x"), None, None, None, None),
      LegacyRecord("TeamGPT", Some("openai/gpt-4o"), None, None, Some(7), Some("OPENAI")),
      LegacyRecord("", Some("x"), None, None, None, None),
      LegacyRecord("TeamGPT", None, None, None, None, None) }

LegacyLists == UNION {[1..n -> LegacyRecords] : n \in 0..MaxLegacy}

\* What the legacy file may hold when a process starts.
LegacyFiles ==
    { None,
      Some(<<>>),
      Some(<<LegacyRecord("TeamGPT", Some("x"), None, None, None, None)>>),
      Some(<<LegacyRecord("", Some("x"), None, None, None, None),
             LegacyRecord("TeamGPT", Some("x"), None, None, None, None)>>) }

\* Records that are not of the legacy shape, and the lists and files with them.
MalformedRecords ==
    { MalformedRecord("text", ""),
      MalformedRecord("config_null", "TeamGPT"),
      MalformedRecord("config_text", "") }

MigrateRecords ==
    { LegacyRecord("Old1", Some("x"), None, None, None, None),
      LegacyRecord("TeamGPT", Some("openai/gpt-4o"), None, None, None, None),
      LegacyRecord("TeamGPT", None, None, None, None, None) } \cup MalformedRecords

MigrateLists == UNION {[1..n -> MigrateRecords] : n \in 0..MaxLegacy}

MigrateFiles ==
    { None,
      Some(<<MalformedRecord("config_null", "TeamGPT"),
             LegacyRecord("Old1", Some("x"), None, None, None, None)>>),
      Some(<<LegacyRecord("Old1", Some("x"), None, None, None, None),
             MalformedRecord("text", "")>>),
      Some(<<MalformedRecord("config_text", ""),
             LegacyRecord("TeamGPT", Some("x"), None, None, None, None)>>) }

\* Endpoints and model ids a built-in profile may carry.
FamilyBaseUrls ==
    { "", "https://generativelanguage.googleapis.com/v1beta/openai/",
      "https://openrouter.ai/api/v1", "https://OpenRouter.ai/api/v1",
      "https://api.groq.com/openai/v1", "https://api.x.ai/v1",
      "https://api.deepseek.com", "https://api.openai.com/v1",
      "https://llm.example.com/v1", "https://openrouter.example.com/groq" }

FamilyModels ==
    { "deepseek/deepseek-chat", "DeepSeek-R1", "google/gemini-pro-1.5", "Gemini-Flash",
      "grok-2", "x-ai/grok-beta", "openai/gpt-4o-mini", "llama-3.3-70b",
      "anthropic/claude-3.5-sonnet", "mixtral-8x7b", "deepseek-gemini-grok" }

\* The credentials the resolver runs explore.
ResolveKeys == {"OPENAI_API_KEY", "ANTHROPIC_API_KEY"}
EnvValue(k) == "env:" \o k
SecretValue(k) == "sec:" \o k
SecretFiles ==
    {None} \cup {Some([k \in K |-> SecretValue(k)]) : K \in SUBSET ResolveKeys}
Tags == {"OPENAI", "ANTHROPIC"}
FreshKeys == {"OPENROUTER_API_KEY", "OPENAI_API_KEY"}
DeleteKeys == {"OPENAI_API_KEY", "GEMINI_API_KEY", "ANTHROPIC_API_KEY", ""}
KeySessions == {"s1", "s2"}
RaceFiles ==
    { Some(<<LegacyRecord("TeamGPT", Some("x"), None, None, None, None)>>),
      Some(<<LegacyRecord("Old1", Some("x"), None, None, None, None),
             LegacyRecord("", Some("x"), None, None, None, None),
             LegacyRecord("TeamGPT", Some("x"), None, None, None, None)>>) }
FreshSecretFiles ==
    {None} \cup {Some([k \in K |-> SecretValue(k)]) : K \in SUBSET FreshKeys}
FreshChoices == {"TeamGPT", "DeepSeek-Chat"}

-----------------------------------------------------------------------------
(* State after construction: init_database has created the empty table, and
   model_configs has read OPENROUTER_API_KEY while being imported *)

NoCall == [op |-> "none"]

NoEnv == [k \in {} |-> ""]

InitWith(env, sec, legacy) ==
    /\ custom_models = {}
    /\ sqlite_sequence = 0
    /\ clock = 0
    /\ legacy_file = legacy
    /\ backup_file = None
    /\ environ = env
    /\ secrets = sec
    /\ OPENROUTER_API_KEY = load_api_keys(env, sec)["OPENROUTER_API_KEY"]
    /\ model_choices = MODEL_CHOICES(load_api_keys(env, sec)["OPENROUTER_API_KEY"])
    /\ session_state = [s \in Sessions |-> [custom_models |-> None, api_keys |-> None]]
    /\ pc = [s \in Sessions |-> [at |-> "idle"]]
    /\ last = NoCall

Init == InitWith(NoEnv, None, None)

-----------------------------------------------------------------------------
(* Direct calls of settings/api_database.py *)

Db == <<custom_models, sqlite_sequence>>
Files == <<legacy_file, backup_file>>
Credentials == <<environ, secrets, OPENROUTER_API_KEY, model_choices>>

StoreFrame == UNCHANGED <<Files, Credentials, session_state, pc>>

AddCustomModel(name, model_id, provider, base_url, temperature, api_provider) ==
    LET r == db_add_custom_model(custom_models, sqlite_sequence, clock, name, model_id,
                                 provider, base_url, temperature, api_provider)
    IN  /\ r.seq <= MaxId
        /\ custom_models' = r.rows
        /\ sqlite_sequence' = r.seq
        /\ last' = [op |-> "db_add", name |-> name, ret |-> r.ret]
        /\ UNCHANGED clock
        /\ StoreFrame

UpdateCustomModel(name, model_id, provider, base_url, temperature, api_provider) ==
    LET r == update_custom_model(custom_models, clock, name, model_id, provider,
                                 base_url, temperature, api_provider)
    IN  /\ custom_models' = r.rows
        /\ last' = [op |-> "db_update", name |-> name, ret |-> r.ret,
                    nothing |-> NoUpdates(model_id, provider, base_url, temperature,
                                          api_provider)]
        /\ UNCHANGED <<sqlite_sequence, clock>>
        /\ StoreFrame

DeleteCustomModel(name) ==
    LET r == db_delete_custom_model(custom_models, name)
    IN  /\ custom_models' = r.rows
        /\ last' = [op |-> "db_delete", name |-> name, ret |-> r.ret]
        /\ UNCHANGED <<sqlite_sequence, clock>>
        /\ StoreFrame

GetAllCustomModels ==
    /\ last' = [op |-> "db_list", ret |-> db_get_all_custom_models(custom_models)]
    /\ UNCHANGED <<Db, clock>>
    /\ StoreFrame

GetCustomModelByName(name) ==
    /\ last' = [op |-> "db_read", name |-> name,
                ret |-> get_custom_model_by_name(custom_models, name)]
    /\ UNCHANGED <<Db, clock>>
    /\ StoreFrame

ModelExists(name) ==
    /\ last' = [op |-> "db_exists", name |-> name,
                ret |-> db_model_exists(custom_models, name)]
    /\ UNCHANGED <<Db, clock>>
    /\ StoreFrame

MigrateFromJson(json_models) ==
    LET r == migrate_from_json(custom_models, sqlite_sequence, clock, json_models)
    IN  /\ r.seq <= MaxId
        /\ custom_models' = r.rows
        /\ sqlite_sequence' = r.seq
        /\ last' = [op |-> "db_migrate", n |-> Len(json_models),
                    valid |-> ValidNames(json_models), raised |-> r.raised, ret |-> r.ret]
        /\ UNCHANGED clock
        /\ StoreFrame

\* The mutating calls, each meeting the fault `fault` (or none).
AddWithFault(name, fault) ==
    LET r == add_custom_model_with_fault(custom_models, sqlite_sequence, clock, fault, name,
                                         "openai/gpt-4o", None, None, None, None)
    IN  /\ r.seq <= MaxId
        /\ custom_models' = r.rows
        /\ sqlite_sequence' = r.seq
        /\ last' = [op |-> "add_custom_model", name |-> name, nothing |-> FALSE,
                    fault |-> fault, faulted |-> r.faulted, outcome |-> r.outcome,
                    conn |-> r.conn]
        /\ UNCHANGED clock
        /\ StoreFrame

UpdateWithFault(name, temperature, fault) ==
    LET r == update_custom_model_with_fault(custom_models, sqlite_sequence, clock, fault,
                                            name, None, None, None, temperature, None)
    IN  /\ custom_models' = r.rows
        /\ sqlite_sequence' = r.seq
        /\ last' = [op |-> "update_custom_model", name |-> name,
                    nothing |-> temperature = None,
                    fault |-> fault, faulted |-> r.faulted, outcome |-> r.outcome,
                    conn |-> r.conn]
        /\ UNCHANGED clock
        /\ StoreFrame

DeleteWithFault(name, fault) ==
    LET r == delete_custom_model_with_fault(custom_models, sqlite_sequence, fault, name)
    IN  /\ custom_models' = r.rows
        /\ sqlite_sequence' = r.seq
        /\ last' = [op |-> "delete_custom_model", name |-> name, nothing |-> FALSE,
                    fault |-> fault, faulted |-> r.faulted, outcome |-> r.outcome,
                    conn |-> r.conn]
        /\ UNCHANGED clock
        /\ StoreFrame

\* A second passes.
Tick ==
    /\ clock < MaxClock
    /\ clock' = clock + 1
    /\ last' = [op |-> "tick"]
    /\ UNCHANGED Db
    /\ StoreFrame

-----------------------------------------------------------------------------
(* Calls of settings/api_manager.py and settings/model_configs.py by session s *)

\* add_custom_model up to its db_model_exists check: the error and False when the
\* name has a row, else on to the insert.
AddCheck(s, name, provider, model_id, base_url, temperature, api_provider) ==
    /\ pc[s].at # "insert"
    /\ IF db_model_exists(custom_models, name)
       THEN /\ pc' = [pc EXCEPT ![s] = [at |-> "returned", name |-> name, ret |-> FALSE,
                                        error |-> TRUE]]
            /\ last' = [op |-> "add", sess |-> s, name |-> name, ret |-> FALSE,
                        error |-> TRUE]
       ELSE /\ pc' = [pc EXCEPT ![s] = [at |-> "insert", name |-> name,
                                        provider |-> provider, model_id |-> model_id,
                                        base_url |-> base_url, temperature |-> temperature,
                                        api_provider |-> api_provider]]
            /\ last' = [op |-> "add_checked", sess |-> s, name |-> name]
    /\ UNCHANGED <<Db, clock, Files, Credentials, session_state>>

\* add_custom_model from its insert on: the cache entry is dropped on success.
AddInsert(s) ==
    /\ pc[s].at = "insert"
    /\ LET r == ManagerInsert(custom_models, sqlite_sequence, clock, pc[s])
       IN  /\ r.seq <= MaxId
           /\ custom_models' = r.rows
           /\ sqlite_sequence' = r.seq
           /\ session_state' = IF r.ret THEN DropCache(session_state, s) ELSE session_state
           /\ pc' = [pc EXCEPT ![s] = [at |-> "returned", name |-> pc[s].name,
                                       ret |-> r.ret, error |-> FALSE]]
           /\ last' = [op |-> "add", sess |-> s, name |-> pc[s].name, ret |-> r.ret,
                       error |-> FALSE]
    /\ UNCHANGED <<clock, Files, Credentials>>

RemoveCustomModel(s, name) ==
    /\ pc[s].at # "insert"
    /\ LET r == db_delete_custom_model(custom_models, name)
       IN  /\ custom_models' = r.rows
           /\ session_state' = IF r.ret THEN DropCache(session_state, s) ELSE session_state
           /\ last' = [op |-> "remove", sess |-> s, name |-> name, ret |-> r.ret]
    /\ UNCHANGED <<sqlite_sequence, clock, Files, Credentials, pc>>

LoadCustomModels(s) ==
    /\ pc[s].at # "insert"
    /\ LET r == load_custom_models(custom_models, sqlite_sequence, clock, legacy_file,
                                   backup_file)
       IN  /\ r.seq <= MaxId
           /\ custom_models' = r.rows
           /\ sqlite_sequence' = r.seq
           /\ legacy_file' = r.legacy
           /\ backup_file' = r.backup
           /\ session_state' = [session_state EXCEPT ![s].custom_models = Some(r.models)]
           /\ last' = [op |-> "load", sess |-> s, ret |-> r.models]
    /\ UNCHANGED <<clock, Credentials, pc>>

GetAllAvailableModels(s) ==
    /\ pc[s].at # "insert"
    /\ LET current_keys == load_api_keys(environ, secrets)
           r == load_custom_models(custom_models, sqlite_sequence, clock, legacy_file,
                                   backup_file)
           updated_models == get_all_available_models(r.models, current_keys, model_choices)
       IN  /\ r.seq <= MaxId
           /\ custom_models' = r.rows
           /\ sqlite_sequence' = r.seq
           /\ legacy_file' = r.legacy
           /\ backup_file' = r.backup
           /\ session_state' = [session_state EXCEPT ![s].api_keys = Some(current_keys),
                                                     ![s].custom_models = Some(r.models)]
           /\ last' = [op |-> "get_all", sess |-> s, ret |-> updated_models]
           /\ model_choices' = CatalogAfterResolution(model_choices, last'.ret)
    /\ UNCHANGED <<clock, environ, secrets, OPENROUTER_API_KEY, pc>>

\* get_model_config: load_api_keys, reached only past the import, caches the keys.
GetModelConfig(s, choice) ==
    /\ pc[s].at # "insert"
    /\ LET r == get_model_config(custom_models, environ, secrets, OPENROUTER_API_KEY, choice)
       IN  /\ session_state' =
                 IF r.raised \/ get_custom_model_by_name(custom_models, choice) = None
                 THEN session_state
                 ELSE [session_state EXCEPT
                          ![s].api_keys = Some(load_api_keys(environ, secrets))]
           /\ last' = [op |-> "get_model_config", sess |-> s, name |-> choice, ret |-> r]
    /\ UNCHANGED <<Db, clock, Files, Credentials, pc>>

\* load_api_keys, as initialize_api_system and get_api_key call it.
LoadApiKeys(s) ==
    /\ session_state' = [session_state EXCEPT
                            ![s].api_keys = Some(load_api_keys(environ, secrets))]
    /\ last' = [op |-> "load_api_keys", sess |-> s]
    /\ UNCHANGED <<Db, clock, Files, Credentials, pc>>

DeleteApiKey(s, key_name) ==
    LET r == delete_api_key(environ, secrets, key_name)
    IN  /\ session_state' = [session_state EXCEPT ![s].api_keys = Some(r.api_keys)]
        /\ last' = [op |-> "delete_api_key", sess |-> s, key |-> key_name, ret |-> r.ret]
        /\ UNCHANGED <<Db, clock, Files, Credentials, pc>>

\* _migrate_json_to_sqlite step by step, as two sessions can interleave it.
\* `if os.path.exists(LEGACY_CUSTOM_MODELS_FILE)`
MigrateExists(s) ==
    /\ pc[s].at \in {"idle", "migrated"}
    /\ pc' = [pc EXCEPT ![s] = IF legacy_file = None
                               THEN [at |-> "migrated", raised |-> FALSE]
                               ELSE [at |-> "open"]]
    /\ last' = [op |-> "mig_exists", sess |-> s, ret |-> legacy_file # None]
    /\ UNCHANGED <<Db, clock, Files, Credentials, session_state>>

\* open and json.load: the FileNotFoundError of a file renamed since the check is
\* caught; an empty list ends the call without a rename.
MigrateRead(s) ==
    /\ pc[s].at = "open"
    /\ pc' = [pc EXCEPT ![s] = IF legacy_file = None \/ legacy_file = Some(<<>>)
                               THEN [at |-> "migrated", raised |-> FALSE]
                               ELSE [at |-> "migrate", todo |-> TheOne(legacy_file)]]
    /\ last' = [op |-> "mig_read", sess |-> s, ret |-> legacy_file # None]
    /\ UNCHANGED <<Db, clock, Files, Credentials, session_state>>

\* One pass of the loop of migrate_from_json: the record is skipped, or inserted
\* in a transaction of its own, or raises and ends the call (caught, no rename).
MigrateRecord(s) ==
    /\ pc[s].at = "migrate"
    /\ LET rec == Head(pc[s].todo)
           m == migrate_from_json(custom_models, sqlite_sequence, clock, <<rec>>)
       IN  /\ m.seq <= MaxId
           /\ custom_models' = m.rows
           /\ sqlite_sequence' = m.seq
           /\ pc' = [pc EXCEPT ![s] =
                        IF m.raised THEN [at |-> "migrated", raised |-> FALSE]
                        ELSE IF Tail(pc[s].todo) = <<>> THEN [at |-> "rename"]
                        ELSE [at |-> "migrate", todo |-> Tail(pc[s].todo)]]
           /\ last' = [op |-> "mig_record", sess |-> s, name |-> rec.name,
                       ret |-> m.ret = 1]
    /\ UNCHANGED <<clock, Files, Credentials, session_state>>

\* os.rename to the backup path: the FileNotFoundError of a file that another
\* session has renamed meanwhile is caught.
MigrateRename(s) ==
    /\ pc[s].at = "rename"
    /\ IF legacy_file = None
       THEN UNCHANGED Files
       ELSE legacy_file' = None /\ backup_file' = legacy_file
    /\ pc' = [pc EXCEPT ![s] = [at |-> "migrated", raised |-> FALSE]]
    /\ last' = [op |-> "mig_rename", sess |-> s, ret |-> legacy_file # None]
    /\ UNCHANGED <<Db, clock, Credentials, session_state>>

\* One pass of the built-in loop of get_all_available_models, for a built-in
\* profile with this base_url and model: the key name its if/elif chain reads.
BuiltinKeyFor(base_url, model) ==
    /\ last' = [op |-> "builtin_key", base_url |-> base_url, model |-> model,
                ret |-> BuiltinKeyName(base_url, model)]
    /\ UNCHANGED <<Db, clock, Files, Credentials, session_state, pc>>

GetSecret(key) ==
    /\ last' = [op |-> "get_secret", key |-> key,
                ret |-> GetSecretOutcome(environ, secrets, key, "")]
    /\ UNCHANGED <<Db, clock, Files, Credentials, session_state, pc>>

\* The operator or a test harness sets or clears an environment variable.
PutEnv(key, value) ==
    /\ environ' = [k \in DOMAIN environ \cup {key} |-> IF k = key THEN value ELSE environ[k]]
    /\ last' = [op |-> "putenv"]
    /\ UNCHANGED <<Db, clock, Files, secrets, OPENROUTER_API_KEY, model_choices,
                   session_state, pc>>

UnsetEnv(key) ==
    /\ key \in DOMAIN environ
    /\ environ' = [k \in DOMAIN environ \ {key} |-> environ[k]]
    /\ last' = [op |-> "unsetenv"]
    /\ UNCHANGED <<Db, clock, Files, secrets, OPENROUTER_API_KEY, model_choices,
                   session_state, pc>>

\* .streamlit/secrets.toml is written, edited or removed.
WriteSecrets(sec) ==
    /\ sec # secrets
    /\ secrets' = sec
    /\ last' = [op |-> "secrets"]
    /\ UNCHANGED <<Db, clock, Files, environ, OPENROUTER_API_KEY, model_choices,
                   session_state, pc>>

-----------------------------------------------------------------------------
(* Specifications *)

\* The store, called directly.
StoreNext ==
    \/ \E name \in StoreNames, api_provider \in Opt({"OPENAI"}) :
            AddCustomModel(name, "openai/gpt-4o", None, None, None, api_provider)
    \/ \E name \in LookupNames, temperature \in Opt({7}) :
            UpdateCustomModel(name, None, None, None, temperature, None)
    \/ \E name \in LookupNames : DeleteCustomModel(name)
    \/ \E name \in LookupNames : RemoveCustomModel("s1", name)
    \/ GetAllCustomModels
    \/ \E name \in LookupNames : GetCustomModelByName(name)
    \/ \E name \in LookupNames : ModelExists(name)
    \/ \E json_models \in LegacyLists : MigrateFromJson(json_models)
    \/ Tick

Spec == Init /\ [][StoreNext]_vars

\* Updates with every choice of supplied fields, of one profile beside another.
UpdateNext ==
    \/ \E name \in StoreNames : AddCustomModel(name, "openai/gpt-4o", None, None, None, None)
    \/ \E name \in UpdateNames, model_id \in Opt({"x"}),
          provider \in Opt({"AzureOpenAIChatCompletionClient"}),
          base_url \in Opt({"https://api.openai.com/v1"}), temperature \in Opt({7}),
          api_provider \in Opt({"GEMINI"}) :
            UpdateCustomModel(name, model_id, provider, base_url, temperature, api_provider)
    \/ \E name \in UpdateNames : GetCustomModelByName(name)
    \/ Tick

SpecUpdate == Init /\ [][UpdateNext]_vars

\* Sessions that each call api_manager.add_custom_model once, on an empty store.
RaceNext ==
    \/ \E s \in Sessions, name \in StoreNames :
            /\ pc[s].at = "idle"
            /\ AddCheck(s, name, DefaultProvider, "openai/gpt-4o", "", DefaultTemperature, "")
    \/ \E s \in Sessions : AddInsert(s)
    \/ \E name \in StoreNames : ModelExists(name)
    \/ GetAllCustomModels

SpecRace == Init /\ [][RaceNext]_vars

\* A session of a process that starts with a legacy file or without one, beside
\* direct calls of the store by others.
ManagerNext ==
    \/ \E name \in ManagerNames :
            AddCheck("s1", name, DefaultProvider, "openai/gpt-4o", "", DefaultTemperature, "")
    \/ AddInsert("s1")
    \/ \E name \in ManagerNames : RemoveCustomModel("s1", name)
    \/ LoadCustomModels("s1")
    \/ GetAllAvailableModels("s1")
    \/ \E choice \in ManagerNames : GetModelConfig("s1", choice)
    \/ \E name \in ManagerNames : AddCustomModel(name, "x", None, None, None, None)
    \/ UpdateCustomModel("TeamGPT", None, None, None, Some(7), None)
    \/ \E name \in ManagerNames : DeleteCustomModel(name)

InitManager ==
    \E legacy \in LegacyFiles :
        InitWith([k \in {"OPENROUTER_API_KEY"} |-> EnvValue(k)], None, legacy)

SpecManager == InitManager /\ [][ManagerNext]_vars

\* Migrations of lists of the legacy format into a store whose rows come and go.
LegacyNext ==
    \/ \E json_models \in LegacyLists : MigrateFromJson(json_models)
    \/ \E name \in StoreNames : AddCustomModel(name, "x", None, None, None, Some("GEMINI"))
    \/ \E name \in StoreNames : DeleteCustomModel(name)
    \/ Tick

SpecLegacy == Init /\ [][LegacyNext]_vars

\* Migration of lists that hold records of any shape, called directly and through
\* load_custom_models of a process that starts with such a legacy file.
MigrateNext ==
    \/ \E json_models \in MigrateLists : MigrateFromJson(json_models)
    \/ LoadCustomModels("s1")
    \/ \E name \in StoreNames : DeleteCustomModel(name)
    \/ GetAllCustomModels

InitMigrate == \E legacy \in MigrateFiles : InitWith(NoEnv, None, legacy)

SpecMigrate == InitMigrate /\ [][MigrateNext]_vars

\* The credential family of built-in profiles of every endpoint and model id.
FamilyNext ==
    \E base_url \in FamilyBaseUrls, model \in FamilyModels : BuiltinKeyFor(base_url, model)

SpecFamily == Init /\ [][FamilyNext]_vars

\* The mutating store operations on a disk and a connection that may fail.
FaultNext ==
    \/ \E name \in StoreNames, fault \in Faults : AddWithFault(name, fault)
    \/ \E name \in StoreNames, temperature \in Opt({7}), fault \in Faults :
            UpdateWithFault(name, temperature, fault)
    \/ \E name \in StoreNames, fault \in Faults : DeleteWithFault(name, fault)
    \/ Tick

SpecFault == Init /\ [][FaultNext]_vars

\* The store listed between creations, updates and deletions.
ListNext ==
    \/ \E name \in ListNames : AddCustomModel(name, "x", None, None, None, None)
    \/ \E name \in ListNames :
            UpdateCustomModel(name, None, None, None, Some(7), None)
    \/ \E name \in ListNames : DeleteCustomModel(name)
    \/ GetAllCustomModels
    \/ Tick

SpecList == Init /\ [][ListNext]_vars

\* Profiles created and updated with a base_url that is absent, empty or set,
\* through api_manager and through api_database, and then resolved.
DefaultsNext ==
    \/ \E name \in StoreNames, base_url \in {"", "https://api.openai.com/v1"} :
            AddCheck("s1", name, DefaultProvider, "openai/gpt-4o", base_url,
                     DefaultTemperature, "")
    \/ AddInsert("s1")
    \/ \E name \in StoreNames, base_url \in Opt({"", "https://api.openai.com/v1"}) :
            AddCustomModel(name, "x", None, base_url, None, None)
    \/ \E name \in StoreNames, base_url \in {"", "https://api.openai.com/v1"} :
            UpdateCustomModel(name, None, None, Some(base_url), None, None)
    \/ \E name \in StoreNames : DeleteCustomModel(name)
    \/ GetAllAvailableModels("s1")
    \/ \E choice \in StoreNames : GetModelConfig("s1", choice)

SpecDefaults == Init /\ [][DefaultsNext]_vars

\* One session resolving profiles while the credentials change.
ResolveNext ==
    \/ \E key \in ResolveKeys : \E value \in {"", EnvValue(key)} : PutEnv(key, value)
    \/ \E key \in ResolveKeys : UnsetEnv(key)
    \/ \E sec \in SecretFiles : WriteSecrets(sec)
    \/ \E key \in ResolveKeys : GetSecret(key)
    \/ \E tag \in Tags, model_id \in ModelIds :
            AddCustomModel("TeamGPT", model_id, None, None, None, Some(tag))
    \/ DeleteCustomModel("TeamGPT")
    \/ GetAllAvailableModels("s1")
    \/ \E choice \in Choices : GetModelConfig("s1", choice)

SpecResolve == Init /\ [][ResolveNext]_vars

\* A built-in profile and a store profile of the OPENAI family resolved again and
\* again while the credentials of their families change.
FreshNext ==
    \/ \E key \in FreshKeys : \E value \in {"", EnvValue(key)} : PutEnv(key, value)
    \/ \E key \in FreshKeys : UnsetEnv(key)
    \/ \E sec \in FreshSecretFiles : WriteSecrets(sec)
    \/ AddCustomModel("TeamGPT", "x", None, None, None, Some("OPENAI"))
    \/ DeleteCustomModel("TeamGPT")
    \/ GetAllAvailableModels("s1")
    \/ \E choice \in FreshChoices : GetModelConfig("s1", choice)

SpecFresh == Init /\ [][FreshNext]_vars

\* Two sessions loading and deleting credentials while the environment and the
\* secrets store change.
KeysNext ==
    \/ \E key \in FreshKeys : \E value \in {"", EnvValue(key)} : PutEnv(key, value)
    \/ \E key \in FreshKeys : UnsetEnv(key)
    \/ \E sec \in FreshSecretFiles : WriteSecrets(sec)
    \/ \E s \in KeySessions : LoadApiKeys(s)
    \/ \E s \in KeySessions, key_name \in DeleteKeys : DeleteApiKey(s, key_name)

SpecKeys == Init /\ [][KeysNext]_vars

\* Two sessions sharing the store: s1 creates, deletes and loads, s2 loads and
\* resolves, and profiles are updated through api_database.
CacheNext ==
    \/ \E name \in StoreNames :
            AddCheck("s1", name, DefaultProvider, "openai/gpt-4o", "", DefaultTemperature, "")
    \/ AddInsert("s1")
    \/ RemoveCustomModel("s1", "TeamGPT")
    \/ \E s \in KeySessions : LoadCustomModels(s)
    \/ GetAllAvailableModels("s2")
    \/ UpdateCustomModel("TeamGPT", None, None, None, Some(7), None)

SpecCache == Init /\ [][CacheNext]_vars

\* Two sessions migrating one legacy file at their first access, each deleting
\* profiles once its own migration has completed.
MigrationRaceNext ==
    \/ \E s \in KeySessions : MigrateExists(s)
    \/ \E s \in KeySessions : MigrateRead(s)
    \/ \E s \in KeySessions : MigrateRecord(s)
    \/ \E s \in KeySessions : MigrateRename(s)
    \/ \E s \in KeySessions, name \in StoreNames :
            /\ pc[s].at = "migrated"
            /\ RemoveCustomModel(s, name)

InitMigrationRace == \E legacy \in RaceFiles : InitWith(NoEnv, None, legacy)

SpecMigrationRace == InitMigrationRace /\ [][MigrationRaceNext]_vars

-----------------------------------------------------------------------------
(* Properties of the store *)

TheRow(tbl, name) == CHOOSE r \in tbl : r.name = name

\* C1: in a series of create calls with one name, a call returns true exactly
\* when the name has no row (so only the first does), and a call that returns
\* false leaves every row as it was; no two rows ever share a name.
C1_CreateOnce ==
    [][last'.op = "db_add" =>
          /\ last'.ret = (last'.name \notin TableNames(custom_models))
          /\ last'.ret = FALSE => custom_models' = custom_models
          /\ \A r \in custom_models : r \in custom_models'
          /\ Cardinality(RowsNamed(custom_models', last'.name)) = 1]_vars

C1_Witness ==
    /\ last.op = "db_add"
    /\ last.ret = FALSE
    /\ RowsNamed(custom_models, last.name) # {}

\* C4: an update of an existing profile that supplies at least one field sets
\* the supplied fields and updated_at of that profile's row, and leaves its other
\* fields, its name, id and created_at, and every other row, unchanged.
C4_UpdatePartial ==
    [][(/\ last'.op = "db_update"
        /\ ~last'.nothing
        /\ last'.name \in TableNames(custom_models))
       => \A model_id \in Opt({"x"}), provider \in Opt({"AzureOpenAIChatCompletionClient"}),
             base_url \in Opt({"https://api.openai.com/v1"}), temperature \in Opt({7}),
             api_provider \in Opt({"GEMINI"}) :
               UpdateCustomModel(last'.name, model_id, provider, base_url, temperature,
                                 api_provider)
               => LET old == TheRow(custom_models, last'.name)
                      new == TheRow(custom_models', last'.name)
                  IN  /\ last'.ret = TRUE
                      /\ new.model_id = (IF model_id = None THEN old.model_id ELSE TheOne(model_id))
                      /\ new.provider = (IF provider = None THEN old.provider ELSE TheOne(provider))
                      /\ new.base_url = (IF base_url = None THEN old.base_url ELSE TheOne(base_url))
                      /\ new.temperature =
                            (IF temperature = None THEN old.temperature ELSE TheOne(temperature))
                      /\ new.api_provider =
                            (IF api_provider = None THEN old.api_provider ELSE TheOne(api_provider))
                      /\ new.updated_at = clock
                      /\ new.name = old.name
                      /\ new.id = old.id
                      /\ new.created_at = old.created_at
                      /\ custom_models' \ {new} = custom_models \ {old}]_vars

C4_Witness ==
    /\ last.op = "db_update"
    /\ ~last.nothing
    /\ last.ret = TRUE
    /\ Cardinality(custom_models) = 2
    /\ \E r \in custom_models :
          /\ r.name = last.name
          /\ r.updated_at > r.created_at
          /\ r.temperature = 7
          /\ r.base_url = DefaultBaseUrl

\* C5: after the migrator has run on a legacy list, running it again on the same
\* list returns 0 and leaves the store as the first run left it.
C5_MigrateTwice ==
    [][last'.op = "db_migrate"
       => \A json_models \in LegacyLists :
             MigrateFromJson(json_models)
             => \A now \in clock'..MaxClock :
                   LET again == migrate_from_json(custom_models', sqlite_sequence', now,
                                                  json_models)
                   IN  /\ again.ret = 0
                       /\ again.rows = custom_models'
                       /\ again.seq = sqlite_sequence']_vars

C5_Witness ==
    /\ last.op = "db_migrate"
    /\ last.ret = 2

\* C10 as claimed: update and delete of a name without a row return false and
\* leave the store unchanged.
C10_Original ==
    [][(/\ last'.op \in {"db_update", "db_delete", "remove"}
        /\ last'.name \notin TableNames(custom_models))
       => /\ last'.ret = FALSE
          /\ custom_models' = custom_models]_vars

\* C10 amended: with a name that has no row, delete returns false, update returns
\* false when it supplies a field and true when it supplies none, and the store is
\* unchanged; delete returns true exactly when a row of that name existed.
C10_AbsentName ==
    [][/\ (last'.op = "db_update" /\ last'.name \notin TableNames(custom_models))
          => /\ last'.ret = last'.nothing
             /\ custom_models' = custom_models
       /\ last'.op \in {"db_delete", "remove"}
          => /\ last'.ret = (last'.name \in TableNames(custom_models))
             /\ last'.name \notin TableNames(custom_models) => custom_models' = custom_models
             /\ custom_models' = {r \in custom_models : r.name # last'.name}]_vars

C10_Witness ==
    /\ last.op = "db_update"
    /\ ~last.nothing
    /\ last.ret = FALSE
    /\ custom_models # {}

\* C11: an update that supplies no field returns true and changes nothing: every
\* row, its updated_at included, is as it was, whether or not the name has a row.
C11_UpdateNothing ==
    [][(last'.op = "db_update" /\ last'.nothing)
       => /\ last'.ret = TRUE
          /\ custom_models' = custom_models
          /\ sqlite_sequence' = sqlite_sequence]_vars

\* An update without fields of an existing row, a second after the row was written.
C11_Witness ==
    /\ last.op = "db_update"
    /\ last.nothing
    /\ last.ret = TRUE
    /\ \E r \in custom_models : r.name = last.name /\ r.updated_at < clock

-----------------------------------------------------------------------------
(* Properties of the session layer and of resolution *)

\* C2: of the sessions that concurrently create one absent name, at most one has
\* returned true, the store holds a row of that name exactly when one has, and once
\* all of them have returned exactly one returned true.
C2_OneWinner ==
    \A n \in StoreNames :
        LET callers == {s \in Sessions : pc[s].at # "idle" /\ pc[s].name = n}
            winners == {s \in callers : pc[s].at = "returned" /\ pc[s].ret}
        IN  /\ Cardinality(winners) <= 1
            /\ Cardinality(RowsNamed(custom_models, n)) = Cardinality(winners)
            /\ (callers # {} /\ \A s \in callers : pc[s].at = "returned")
                  => Cardinality(winners) = 1

\* Two sessions passed the existence check for one name before either inserted.
C2_Witness ==
    \E s, t \in Sessions :
        /\ s # t
        /\ pc[s].at = "returned" /\ pc[t].at = "returned"
        /\ pc[s].name = pc[t].name
        /\ pc[s].ret
        /\ ~pc[t].ret /\ ~pc[t].error

\* C3: get_model_config returns a configuration, for every name and store state.
C3_NeverRaises == last.op = "get_model_config" => ~last.ret.raised

\* C6: _get_secret returns the environment value when that is non-empty, else
\* the secrets value when the secrets store is available and has the key, else "";
\* it never raises.
C6_Resolver ==
    last.op = "get_secret" =>
        last.ret = Returned(
            IF last.key \in DOMAIN environ /\ environ[last.key] # ""
            THEN environ[last.key]
            ELSE IF secrets # None /\ last.key \in DOMAIN TheOne(secrets)
            THEN TheOne(secrets)[last.key]
            ELSE "")

\* The environment and the secrets store both hold the key.
C6_Witness ==
    /\ last.op = "get_secret"
    /\ last.key \in DOMAIN environ /\ environ[last.key] # ""
    /\ secrets # None /\ last.key \in DOMAIN TheOne(secrets)
    /\ last.ret.value = EnvValue(last.key)

\* The configuration a resolution call gave for name n: {} when there is none.
ResolvedConfig(call, n) ==
    IF call.op = "get_all"
    THEN (IF n \in DOMAIN call.ret THEN Some(call.ret[n].config) ELSE None)
    ELSE (IF call.ret.raised THEN None ELSE Some(call.ret.value.config))

\* The resolution gave the fields of n's row, or without a row the built-in of
\* that name, else (get_model_config) the default profile.
ReflectsStore(call, n, tbl) ==
    LET got == ResolvedConfig(call, n)
    IN  IF n \in TableNames(tbl)
        THEN /\ got # None
             /\ TheOne(got).model = TheRow(tbl, n).model_id
             /\ TheOne(got).base_url = TheRow(tbl, n).base_url
             /\ TheOne(got).temperature = TheRow(tbl, n).temperature
        ELSE IF n \in BuiltinNames
        THEN /\ got # None
             /\ TheOne(got).model = BuiltinModel(n)
        ELSE call.op = "get_model_config"
             => /\ got # None
                /\ TheOne(got).model = "deepseek/deepseek-chat"

Mutations == {"db_add", "db_update", "db_delete", "add", "remove"}

\* C7: the resolution of n that follows a successful create, update or delete of
\* n reflects the store as it then is.
C7_Original ==
    [][(/\ last.op \in Mutations
        /\ last.ret = TRUE
        /\ last'.op \in {"get_all", "get_model_config"}
        /\ last'.op = "get_model_config" => last'.name = last.name)
       => ReflectsStore(last', last.name, custom_models')]_vars

\* The same through get_all_available_models alone, whatever list is cached.
C7_ThroughGetAll ==
    [][(/\ last.op \in Mutations
        /\ last.ret = TRUE
        /\ last'.op = "get_all")
       => ReflectsStore(last', last.name, custom_models')]_vars

\* C8: get_all_available_models gives a profile created with tag T, without
\* base_url and temperature, its model id, the default base_url and temperature,
\* and the key _get_secret returns for T_API_KEY.
C8_Original ==
    last.op = "get_all" =>
        \A r \in custom_models :
            /\ r.name \in DOMAIN last.ret
            /\ last.ret[r.name].config.model = r.model_id
            /\ last.ret[r.name].config.base_url = "https://openrouter.ai/api/v1"
            /\ last.ret[r.name].config.temperature = 2
            /\ last.ret[r.name].config.api_key =
                  _get_secret(environ, secrets, r.api_provider \o "_API_KEY", "")

-----------------------------------------------------------------------------
(* Properties of the migration *)

\* C12: migrate_from_json adds a row exactly for the names of records with a
\* non-empty name and a non-empty config.model that have no row yet, skips the
\* other records without raising, returns the number of rows it added, and leaves
\* every row that existed before as it was.
C12_MigrateCounts ==
    [][(last'.op = "db_migrate" /\ ~last'.raised)
       => LET added == custom_models' \ custom_models
          IN  /\ custom_models \subseteq custom_models'
              /\ TableNames(added) = last'.valid \ TableNames(custom_models)
              /\ last'.ret = Cardinality(added)
              /\ \A r \in added : Cardinality(RowsNamed(custom_models', r.name)) = 1]_vars

\* Of a list of two records one was inserted beside a row that existed before;
\* the other was skipped.
C12_Witness ==
    /\ last.op = "db_migrate"
    /\ last.n = 2
    /\ ~last.raised
    /\ last.ret = 1
    /\ Cardinality(custom_models) = 2

\* C13: once a call has run the automatic migration step, the legacy source is
\* no longer under its path, whatever it held, an empty list included.
C13_Original ==
    last.op \in {"load", "get_all"} => legacy_file = None

\* C14: a malformed record does not end the batch: migrate_from_json returns, as
\* its count, the number of rows it added, and the store then holds a row for
\* every well-formed usable record of the list, those after a malformed record
\* included; so does the store after load_custom_models ran the migration of a
\* legacy file.
C14_Original ==
    [][/\ last'.op = "db_migrate"
          => /\ ~last'.raised
             /\ last'.valid \subseteq TableNames(custom_models')
             /\ last'.ret = Cardinality(custom_models' \ custom_models)
       /\ (last'.op = "load" /\ legacy_file # None)
          => ValidNames(TheOne(legacy_file)) \subseteq TableNames(custom_models')]_vars

-----------------------------------------------------------------------------
(* Properties of resolution by name *)

\* C15: get_model_config of a name that is neither a store profile nor a built-in
\* profile returns the default profile, model "deepseek/deepseek-chat" at
\* "https://openrouter.ai/api/v1".
C15_Original ==
    (/\ last.op = "get_model_config"
     /\ last.name \notin TableNames(custom_models) \cup BuiltinNames)
    => /\ ~last.ret.raised
       /\ last.ret.value.config.model = "deepseek/deepseek-chat"
       /\ last.ret.value.config.base_url = "https://openrouter.ai/api/v1"

\* The store profile r, as a resolution has to give it.
GivesStoreProfile(config, r) ==
    /\ config.model = r.model_id
    /\ config.base_url = r.base_url
    /\ config.temperature = r.temperature
    /\ config.api_key = _get_secret(environ, secrets, r.api_provider \o "_API_KEY", "")

\* C16: for a store profile named as a built-in profile, get_all_available_models
\* and get_model_config give the store profile's model id, base_url, temperature
\* and the key of its api_provider, not the built-in's values.
C16_Original ==
    \A r \in custom_models :
        r.name \in BuiltinNames =>
            /\ last.op = "get_all"
               => /\ r.name \in DOMAIN last.ret
                  /\ GivesStoreProfile(last.ret[r.name].config, r)
            /\ (last.op = "get_model_config" /\ last.name = r.name)
               => /\ ~last.ret.raised
                  /\ GivesStoreProfile(last.ret.value.config, r)

\* The same of get_all_available_models alone.
C16_ThroughGetAll ==
    \A r \in custom_models :
        (r.name \in BuiltinNames /\ last.op = "get_all")
        => /\ r.name \in DOMAIN last.ret
           /\ GivesStoreProfile(last.ret[r.name].config, r)

\* C17: the key of a built-in profile is that of the first rule that matches its
\* lower-cased base_url and model id, in the order GEMINI (googleapis domain or
\* "gemini" model), OPENROUTER ("openrouter" url), GROQ ("groq" url), GROK ("x.ai"
\* url or "grok" model), DEEPSEEK ("deepseek" url, or "deepseek" model off
\* openrouter), else OPENAI; a "deepseek" model at an openrouter url is OPENROUTER.
C17_Precedence ==
    last.op = "builtin_key" =>
        LET base_url == Lower(last.base_url)
            model == Lower(last.model)
            gemini == Contains(base_url, "generativelanguage.googleapis.com")
                         \/ Contains(model, "gemini")
            openrouter == Contains(base_url, "openrouter")
            groq == Contains(base_url, "groq")
            grok == Contains(base_url, "x.ai") \/ Contains(model, "grok")
            deepseek == Contains(base_url, "deepseek")
                           \/ (Contains(model, "deepseek") /\ ~openrouter)
        IN  /\ gemini => last.ret = "GEMINI_API_KEY"
            /\ (~gemini /\ openrouter) => last.ret = "OPENROUTER_API_KEY"
            /\ (~gemini /\ ~openrouter /\ groq) => last.ret = "GROQ_API_KEY"
            /\ (~gemini /\ ~openrouter /\ ~groq /\ grok) => last.ret = "GROK_API_KEY"
            /\ (~gemini /\ ~openrouter /\ ~groq /\ ~grok /\ deepseek)
                  => last.ret = "DEEPSEEK_API_KEY"
            /\ (~gemini /\ ~openrouter /\ ~groq /\ ~grok /\ ~deepseek)
                  => last.ret = "OPENAI_API_KEY"
            /\ (Contains(model, "deepseek") /\ openrouter /\ ~gemini)
                  => last.ret = "OPENROUTER_API_KEY"
            /\ BuiltinKey["DeepSeek-Chat"] = "OPENROUTER_API_KEY"
            /\ BuiltinKey["Gemini-Pro"] = "GEMINI_API_KEY"

\* A "DeepSeek" model at an upper-cased openrouter endpoint resolved to OPENROUTER.
C17_Witness ==
    /\ last.op = "builtin_key"
    /\ last.model = "DeepSeek-R1"
    /\ last.base_url = "https://OpenRouter.ai/api/v1"
    /\ last.ret = "OPENROUTER_API_KEY"

-----------------------------------------------------------------------------
(* Properties of the store under faults *)

FaultOps == {"add_custom_model", "update_custom_model", "delete_custom_model"}

\* What the call that made this step does to the table when nothing fails.
FaultFree(call, tbl, seq, now) ==
    CASE call.op = "add_custom_model"
           -> db_add_custom_model(tbl, seq, now, call.name, "openai/gpt-4o",
                                  None, None, None, None)
      [] call.op = "update_custom_model"
           -> update_custom_model(tbl, now, call.name, None, None, None,
                                  IF call.nothing THEN None ELSE Some(7), None)
      [] call.op = "delete_custom_model"
           -> db_delete_custom_model(tbl, call.name)

\* C18: a create, update or delete leaves no connection open on any exit path;
\* when it does not return true (a fault, a duplicate name, no such row) the store
\* is as before the call; when it returns true the store holds its whole effect;
\* without a fault it returns and does what the operation does.
C18_CommitOrRollback ==
    [][last'.op \in FaultOps
       => LET op == FaultFree(last', custom_models, sqlite_sequence, clock)
          IN  /\ last'.conn \in {"none", "closed"}
              /\ last'.outcome # Returned(TRUE)
                    => /\ custom_models' = custom_models
                       /\ sqlite_sequence' = sqlite_sequence
              /\ last'.outcome = Returned(TRUE) => custom_models' = op.rows
              /\ last'.fault = "none"
                    => /\ last'.outcome = Returned(op.ret)
                       /\ custom_models' = op.rows
                       /\ last'.conn = "closed"]_vars

\* The commit of an update of an existing row failed: the row is as it was.
C18_Witness ==
    /\ last.op = "update_custom_model"
    /\ ~last.nothing
    /\ last.fault = "commit"
    /\ last.outcome = Returned(FALSE)
    /\ last.conn = "closed"
    /\ \E r \in custom_models : r.name = last.name /\ r.temperature = DefaultTemperature

\* C19: a create, update or delete that meets an infrastructure fault raises to
\* its caller, and does not return false as for a duplicate name or a missing row.
C19_Original ==
    (last.op \in FaultOps /\ last.faulted) => last.outcome.raised

-----------------------------------------------------------------------------
(* Properties of the session cache *)

\* The cache entry of session s is absent or lists the store as it is.
CacheFresh(s) ==
    \/ session_state[s].custom_models = None
    \/ session_state[s].custom_models = Some(db_get_all_custom_models(custom_models))

\* C20: when a create or delete (api_manager) or an update (api_database) has
\* returned true, the cache entry of the session that made the call is absent or
\* equal to the store's ordered profile list.  update_custom_model has no session
\* argument: the call may come from any session.
C20_Original ==
    (last.op \in {"add", "remove", "db_update"} /\ last.ret = TRUE)
    => \A s \in Sessions : (last.op = "db_update" \/ last.sess = s) => CacheFresh(s)

\* The same of add_custom_model and remove_custom_model alone.
C20_AddRemove ==
    (last.op \in {"add", "remove"} /\ last.ret = TRUE) => CacheFresh(last.sess)

-----------------------------------------------------------------------------
(* Properties of what resolution returns *)

\* C21: every configuration that get_all_available_models or get_model_config
\* returns has a model id and a base_url, an absent or empty base_url of the
\* profile being replaced by "https://openrouter.ai/api/v1".
C21_Original ==
    /\ last.op = "get_all"
          => /\ \A n \in DOMAIN last.ret :
                    /\ last.ret[n].config.model # ""
                    /\ last.ret[n].config.base_url # ""
             /\ \A r \in custom_models :
                    r.base_url = ""
                    => last.ret[r.name].config.base_url = "https://openrouter.ai/api/v1"
    /\ (last.op = "get_model_config" /\ ~last.ret.raised)
          => /\ last.ret.value.config.model # ""
             /\ last.ret.value.config.base_url # ""

\* api_manager.add_custom_model stores the default in place of an empty base_url.
C21_ManagerDefault ==
    [][\A r \in custom_models' \ custom_models :
          last'.op = "add" => r.base_url # ""]_vars

\* C22: get_all_custom_models returns exactly the rows of the store, each once,
\* in ascending order of name, and the same sequence again when no mutation lies
\* between two calls.
C22_ListOrdered ==
    [][last'.op = "db_list"
       => LET ret == last'.ret
          IN  /\ Len(ret) = Cardinality(custom_models')
              /\ {ret[i] : i \in 1..Len(ret)} = {ModelDict(r) : r \in custom_models'}
              /\ \A i, j \in 1..Len(ret) : i < j => StrLess(ret[i].name, ret[j].name)
              /\ last.op = "db_list" => ret = last.ret]_vars

\* Two rows listed against the order of their insertion.
C22_Witness ==
    /\ last.op = "db_list"
    /\ Len(last.ret) = 2
    /\ last.ret[1].id > last.ret[2].id
    /\ {last.ret[1], last.ret[2]} = {ModelDict(r) : r \in custom_models}

\* C23: a session whose add_custom_model has returned false for a name that has
\* a row has been shown the "already exists" error during that call, whatever
\* the other sessions did meanwhile.
C23_Original ==
    \A s \in Sessions :
        (/\ pc[s].at = "returned"
         /\ ~pc[s].ret
         /\ db_model_exists(custom_models, pc[s].name))
        => pc[s].error

\* The same of a call whose existence check and insert no other session's insert
\* of that name separates: false is returned at the check, with the error.
C23_AtTheCheck ==
    [][\A s \in Sessions :
          (/\ pc'[s] # pc[s]
           /\ pc'[s].at = "returned"
           /\ ~pc'[s].ret
           /\ pc[s].at # "insert")
          => pc'[s].error]_vars

\* The credential key of the family of profile n, as the store and the built-in
\* catalog give it now.
FamilyKey(n) ==
    IF db_model_exists(custom_models, n)
    THEN TheRow(custom_models, n).api_provider \o "_API_KEY"
    ELSE BuiltinKey[n]

\* What the resolver answers for key k now.
CredentialNow(k) == _get_secret(environ, secrets, k, "")

\* C24: get_all_available_models and get_model_config give every built-in and
\* store profile of one of the six families the credential its family has at the
\* time of the call, never the one read at import or by an earlier call.
C24_Original ==
    /\ last.op = "get_all"
          => \A n \in DOMAIN last.ret :
                FamilyKey(n) \in CredentialKeys
                => last.ret[n].config.api_key = CredentialNow(FamilyKey(n))
    /\ (last.op = "get_model_config" /\ FamilyKey(last.name) \in CredentialKeys)
          => /\ ~last.ret.raised
             /\ last.ret.value.config.api_key = CredentialNow(FamilyKey(last.name))

\* The half of C24 that is about get_all_available_models.
C24_ThroughGetAll ==
    last.op = "get_all"
    => \A n \in DOMAIN last.ret :
          FamilyKey(n) \in CredentialKeys
          => last.ret[n].config.api_key = CredentialNow(FamilyKey(n))

\* A credential that has changed since the import, resolved by get_all_available_models.
C24_Changed ==
    /\ last.op = "get_all"
    /\ last.ret["DeepSeek-Chat"].config.api_key # OPENROUTER_API_KEY
    /\ db_model_exists(custom_models, "TeamGPT")
    /\ last.ret["TeamGPT"].config.api_key = "sec:OPENAI_API_KEY"

\* Past its import, get_model_config would give a built-in profile the key that
\* model_configs read while being imported.
C24_StaticKeyOfImport ==
    \A n \in BuiltinNames :
        ~db_model_exists(custom_models, n)
        => ConfigFor(None, load_api_keys(environ, secrets), OPENROUTER_API_KEY, n).config.api_key
              = OPENROUTER_API_KEY

\* The entry get_all_available_models has for name n in the present state.
EntryNow(n) ==
    get_all_available_models(db_get_all_custom_models(custom_models),
                             load_api_keys(environ, secrets), model_choices)[n]

\* C25: for every built-in or store profile name, get_model_config returns a
\* configuration with the model id, base_url, temperature and api_key of that
\* name's entry in get_all_available_models.
C25_Original ==
    (/\ last.op = "get_model_config"
     /\ last.name \in BuiltinNames \cup TableNames(custom_models))
    => /\ ~last.ret.raised
       /\ LET config == last.ret.value.config
               entry == EntryNow(last.name).config
           IN  /\ config.model = entry.model
               /\ config.base_url = entry.base_url
               /\ config.temperature = entry.temperature
               /\ config.api_key = entry.api_key

\* Past its import, get_model_config would agree with get_all_available_models on
\* every store profile.
C25_StoreProfilesAgree ==
    \A r \in custom_models :
        LET config == ConfigFor(Some(ModelDict(r)), load_api_keys(environ, secrets),
                                OPENROUTER_API_KEY, r.name).config
            entry == EntryNow(r.name).config
        IN  /\ config.model = entry.model
            /\ config.base_url = entry.base_url
            /\ config.temperature = entry.temperature
            /\ config.api_key = entry.api_key

-----------------------------------------------------------------------------
(* Properties of the credential copy and of the profile cache of a session *)

\* C26: delete_api_key(K) for one of the six family keys returns true and blanks K
\* in the session's credential copy, leaving the other five entries of the copy,
\* the environment and the secrets store as they were; for any other K it returns
\* false and changes nothing.
C26_Original ==
    [][last'.op = "delete_api_key"
       => LET K == last'.key
              before == session_state[last'.sess].api_keys
              after == session_state'[last'.sess].api_keys
          IN  IF K \in CredentialKeys
              THEN /\ last'.ret
                   /\ after # None
                   /\ TheOne(after)[K] = ""
                   /\ before # None
                         => \A k \in CredentialKeys \ {K} :
                               TheOne(after)[k] = TheOne(before)[k]
                   /\ UNCHANGED <<environ, secrets>>
              ELSE /\ ~last'.ret
                   /\ UNCHANGED <<session_state, environ, secrets, Db, Files>>]_vars

\* What delete_api_key does keep: its result, the blank entry, the environment
\* and the secrets store; the other entries are the resolver's present answers.
C26_ReloadsTheCopy ==
    [][last'.op = "delete_api_key"
       => LET K == last'.key
              after == TheOne(session_state'[last'.sess].api_keys)
          IN  /\ last'.ret = (K \in CredentialKeys)
              /\ \A k \in CredentialKeys :
                    after[k] = IF k = K THEN "" ELSE CredentialNow(k)
              /\ UNCHANGED <<environ, secrets, Db, Files>>
              /\ \A t \in Sessions \ {last'.sess} : session_state'[t] = session_state[t]]_vars

-----------------------------------------------------------------------------
(* Properties of the migration run by two sessions at once *)

\* No name has two rows, and every _migrate_json_to_sqlite that has ended has
\* ended without raising.
C28_OneRowNoRaise ==
    /\ \A n \in StoreNames : Cardinality(RowsNamed(custom_models, n)) <= 1
    /\ \A s \in Sessions : pc[s].at = "migrated" => ~pc[s].raised

\* C28: under every interleaving of the steps of two sessions' migrations of one
\* legacy file, no record has two rows, neither migration raises, and a profile
\* that a session has deleted after its own migration completed is not inserted
\* again by the migration the other session is still running.
C28_Original ==
    [][/\ C28_OneRowNoRaise'
       /\ (/\ last.op = "remove" /\ last.ret
           /\ last'.op = "mig_record"
           /\ last'.sess # last.sess
           /\ last'.name = last.name)
          => ~last'.ret]_vars

-----------------------------------------------------------------------------
(* Properties of the built-in catalog *)

\* C29: whatever the store holds after creations, updates, deletions and
\* migrations, DeepSeek-Chat, GPT-4o-Mini, Claude-Sonnet-3.5, Gemini-Flash and
\* Gemini-Pro are keys of what get_all_available_models returns.
C29_BuiltinsListed ==
    last.op = "get_all"
    => {"DeepSeek-Chat", "GPT-4o-Mini", "Claude-Sonnet-3.5", "Gemini-Flash",
        "Gemini-Pro"} \subseteq DOMAIN last.ret

\* Resolution over a store that a migration has filled and that holds a profile
\* under a built-in's name.
C29_Witness ==
    /\ last.op = "get_all"
    /\ backup_file # None
    /\ db_model_exists(custom_models, "TeamGPT")
    /\ db_model_exists(custom_models, "DeepSeek-Chat")
    /\ Cardinality(DOMAIN last.ret) = 6

\* C30: when no store profile has a built-in's name (any more), the entry
\* get_all_available_models returns for it is the built-in profile, with the
\* model id, base_url and temperature of the catalog as imported, and
\* MODEL_CHOICES itself is as it was imported.
C30_ShadowingReversible ==
    /\ model_choices = MODEL_CHOICES(OPENROUTER_API_KEY)
    /\ last.op = "get_all"
          => \A n \in BuiltinNames :
                ~db_model_exists(custom_models, n)
                => /\ last.ret[n].config.model = BuiltinModel(n)
                   /\ last.ret[n].config.base_url = "https://openrouter.ai/api/v1"
                   /\ last.ret[n].config.temperature = 2
                   /\ last.ret[n].provider = "OpenAIChatCompletionClient"

\* The session has created DeepSeek-Chat, the row is gone again, and resolution
\* gives the built-in DeepSeek-Chat.
C30_Witness ==
    /\ pc["s1"].at = "returned" /\ pc["s1"].name = "DeepSeek-Chat" /\ pc["s1"].ret
    /\ ~db_model_exists(custom_models, "DeepSeek-Chat")
    /\ last.op = "get_all"
    /\ last.ret["DeepSeek-Chat"].config.model = "deepseek/deepseek-chat"
    /\ session_state["s1"].custom_models = Some(db_get_all_custom_models(custom_models))

====
